---------------------------- MODULE Spec2Model ----------------------------
(***************************************************************************)
(* Model of the drag and drop composable useDragDrop                       *)
(* (src/src/composables/drag.ts).                                          *)
(*                                                                         *)
(* The List Collection is a sequence of lists of items.  An item is a      *)
(* record [id, v]: id is its numeric identifier and v one further field,   *)
(* either a string ("text", "isoText") or a Date object ("Date").  Array   *)
(* indices are kept 0-based as in the source, with -1 as the sentinel.     *)
(* A nullable reference is the empty tuple (null) or a one-element tuple.  *)
(***************************************************************************)
EXTENDS Integers, Sequences, FiniteSets

\* ------------------------------------------------------------------ bounds
MaxMoves == 4      \* pointer-moves delivered within one gesture
MaxGestures == 2   \* gestures (captures) followed from construction
MaxGhosts == 2     \* ghost clones present in document.body at once

\* ------------------------------------------------------- values and inputs
Null == << >>
Some(x) == << x >>
Val(o) == o[1]

\* id.toString() for the numeric identifiers of the model.
IdStr == << "1", "2", "3", "4", "5", "6", "7", "8", "9" >>
IdToString(id) == IdStr[id]

\* An item of the caller: identifier plus one payload field.
Item(id, v) == [id |-> id, v |-> v]

\* What the caller constructs the controller with: an arrangement of
\* identifiers and the identifiers whose payload field is a Date.
Setups ==
    { [layout |-> << <<1, 2>> >>, dates |-> {}],
      [layout |-> << <<1, 2>> >>, dates |-> {1}],
      [layout |-> << <<1>>, <<2>> >>, dates |-> {}] }

\* The arrangements of the two reordering scenarios, followed for one gesture.
ScenarioSetups ==
    { [layout |-> << <<1, 2, 3>>, <<4, 5>> >>, dates |-> {}],
      [layout |-> << <<1, 2, 3>> >>, dates |-> {}],
      [layout |-> << <<1, 2>>, <<3>> >>, dates |-> {}] }

MakeItems(layout, dates) ==
    [i \in DOMAIN layout |->
        [j \in DOMAIN layout[i] |->
            Item(layout[i][j], IF layout[i][j] \in dates THEN "Date" ELSE "text")]]

\* getAttribute('id') of an element: "" stands for an absent or empty
\* attribute, "x" for an identifier that belongs to no item; the other
\* elements are those rendered for the items of the collection ls.
NoAttr == ""
Attrs(ls) == { NoAttr, "x" } \cup
             UNION { { IdToString(ls[i][j].id) : j \in DOMAIN ls[i] } : i \in DOMAIN ls }

\* What a mousedown lands on: something that is not an HTMLElement, an
\* element with no enclosing .draggify, or a .draggify element with an id.
DownTargets(ls) ==
    { [kind |-> "nonhtml", id |-> NoAttr], [kind |-> "nohandle", id |-> NoAttr] }
    \cup { [kind |-> "handle", id |-> a] : a \in Attrs(ls) }

\* What elementFromPoint(...)?.closest('.draggify') yields on a mousemove.
MoveTargets(ls) ==
    { [kind |-> "none", id |-> NoAttr] }
    \cup { [kind |-> "handle", id |-> a] : a \in Attrs(ls) }

\* History of the hit-tests of a gesture: none yet, or differing ones.
NoMove == [kind |-> "-", id |-> NoAttr]
Mixed == [kind |-> "mixed", id |-> NoAttr]

\* ---------------------------------------------------------- pure functions
\* JSON.parse(JSON.stringify(item)): a Date comes back as its ISO string.
JSONCloneItem(item) ==
    [id |-> item.id, v |-> IF item.v = "Date" THEN "isoText" ELSE item.v]

\* JSON.parse(JSON.stringify(lists))
JSONClone(ls) == [i \in DOMAIN ls |-> [j \in DOMAIN ls[i] |-> JSONCloneItem(ls[i][j])]]

Min(a, b) == IF a < b THEN a ELSE b
Max(a, b) == IF a > b THEN a ELSE b

\* Array.prototype.splice(start, deleteCount, ...ins) on a copy of list.
Splice(list, start, deleteCount, ins) ==
    LET len == Len(list)
        s == IF start < 0 THEN Max(len + start, 0) ELSE Min(start, len)
        d == Min(Max(deleteCount, 0), len - s)
    IN  SubSeq(list, 1, s) \o ins \o SubSeq(list, s + d + 1, len)

\* list.findIndex((f) => f.id.toString() === attr), 0-based, -1 if none.
RECURSIVE FindIndexFrom(_, _, _)
FindIndexFrom(list, attr, k) ==
    IF k > Len(list) THEN -1
    ELSE IF IdToString(list[k].id) = attr THEN k - 1
    ELSE FindIndexFrom(list, attr, k + 1)

FindIndex(list, attr) == FindIndexFrom(list, attr, 1)

\* lists.value[l].splice(start, deleteCount, ...ins), l a valid list index.
SpliceIn(ls, l, start, deleteCount, ins) ==
    [ls EXCEPT ![l + 1] = Splice(ls[l + 1], start, deleteCount, ins)]

ValidList(ls, l) == l >= 0 /\ l < Len(ls)
ValidItem(ls, l, i) == ValidList(ls, l) /\ i >= 0 /\ i < Len(ls[l + 1])

\* The loop of the mousedown listener: originalIndex is assigned for every
\* list visited; originalListIndex only when the item is found.
RECURSIVE ScanOriginal(_, _, _, _, _)
ScanOriginal(ls, attr, k, oi, oli) ==
    IF k > Len(ls) THEN [index |-> oi, list |-> oli]
    ELSE LET f == FindIndex(ls[k], attr)
         IN  IF f # -1 THEN [index |-> f, list |-> k - 1]
             ELSE ScanOriginal(ls, attr, k + 1, f, oli)

\* The loop of handleMouseMove: no identifier on the target ends the loop at
\* once; a list without the identifier is skipped; indices are assigned only
\* when the identifier is found.
RECURSIVE ScanTarget(_, _, _, _, _)
ScanTarget(ls, attr, k, ti, tli) ==
    IF k > Len(ls) THEN [index |-> ti, list |-> tli]
    ELSE IF attr = NoAttr THEN [index |-> ti, list |-> tli]
    ELSE LET f == FindIndex(ls[k], attr)
         IN  IF f = -1 THEN ScanTarget(ls, attr, k + 1, ti, tli)
             ELSE [index |-> f, list |-> k - 1]

\* ------------------------------------------------------------------- state
VARIABLES
    lists,              \* lists.value
    startingLists,      \* baseline snapshot
    elem,               \* the .draggify element tracked: Null or Some(id attribute)
    dragging,           \* the ghost: Null or Some([attached])
    originalIndex, originalListIndex, targetListIndex, targetIndex,
    originalItem,       \* Null or Some(item)
    addedPreview,       \* Null or Some([list, target])
    listening,          \* handleMouseMove / handleMouseUp registered on window
    unmounted,          \* the onUnmounted hook has run
    bodyGhosts,         \* ghost clones that are children of document.body
    last,               \* the path the latest handler took
    threw,              \* the latest handler ended in an uncaught exception
    moves,              \* pointer-moves handled since the latest capture
    budget,             \* captures the run may still follow
    preLists,           \* Null or Some(lists.value as the latest capture found it)
    hovered,            \* hit-test result shared by all moves since capture
    intruded,           \* a mousedown was delivered during the latest session
    lastCommit          \* Null or Some(lists.value as the latest commit left it)

ctl == << elem, dragging, originalIndex, originalListIndex, targetListIndex,
          targetIndex, originalItem, addedPreview, listening, bodyGhosts >>
hist == << moves, budget, preLists, hovered, intruded, lastCommit >>
vars == << lists, startingLists, ctl, unmounted, last, threw, hist >>

\* useDragDrop(items): lines 32-53.
Construct(setups, gestures) ==
    /\ \E s \in setups :
          /\ lists = MakeItems(s.layout, s.dates)
          /\ startingLists = JSONClone(MakeItems(s.layout, s.dates))
    /\ budget = gestures
    /\ elem = Null
    /\ dragging = Null
    /\ originalIndex = -1
    /\ originalListIndex = -1
    /\ targetListIndex = -1
    /\ targetIndex = -1
    /\ originalItem = Null
    /\ addedPreview = Null
    /\ listening = FALSE
    /\ unmounted = FALSE
    /\ bodyGhosts = 0
    /\ last = "init"
    /\ threw = FALSE
    /\ moves = 0
    /\ preLists = Null
    /\ hovered = NoMove
    /\ intruded = FALSE
    /\ lastCommit = Null

Init == Construct(Setups, MaxGestures)
InitScenario == Construct(ScenarioSetups, 1)

\* ---------------------------------------------------------------- mousedown
\* Lines 87-91: the detached copy and the list without the item.
CaptureItem(ls, oli, oi) == JSONCloneItem(ls[oli + 1][oi + 1])
CaptureLists(ls, oli, oi) == SpliceIn(ls, oli, oi, 1, << >>)

\* Lines 94-106: the ghost is appended to document.body and the move and up
\* listeners are registered.
AppendGhost ==
    /\ bodyGhosts < MaxGhosts
    /\ dragging' = Some([attached |-> TRUE])
    /\ bodyGhosts' = bodyGhosts + 1
    /\ listening' = TRUE

\* Line 64 fails: the event target is no HTMLElement.
DownNotHTML ==
    /\ last' = "down:nonhtml"
    /\ threw' = FALSE
    /\ UNCHANGED << lists, elem, dragging, originalIndex, originalListIndex,
                    originalItem, listening, bodyGhosts, moves, budget,
                    preLists, hovered >>

\* Variant of lines 65-67 that goes on to register the listeners.
DownOutsideHandleListens ==
    /\ elem' = Null
    /\ listening' = TRUE
    /\ last' = "down:nohandle"
    /\ threw' = FALSE
    /\ UNCHANGED << lists, dragging, originalIndex, originalListIndex,
                    originalItem, bodyGhosts, moves, budget, preLists, hovered >>

\* Lines 65-67: closest('.draggify') finds nothing.
DownOutsideHandle ==
    /\ elem' = Null
    /\ last' = "down:nohandle"
    /\ threw' = FALSE
    /\ UNCHANGED << lists, dragging, originalIndex, originalListIndex,
                    originalItem, listening, bodyGhosts, moves, budget,
                    preLists, hovered >>

\* Lines 65-106 on a .draggify element whose id attribute is attr.
DownOnHandle(attr) ==
    LET scan == ScanOriginal(lists, attr, 1, originalIndex, originalListIndex)
    IN
    /\ elem' = Some(attr)
    /\ originalIndex' = scan.index
    /\ originalListIndex' = scan.list
    /\ IF originalItem # Null
       THEN \* a detached item exists already: nothing is captured
            /\ AppendGhost
            /\ last' = "down:again"
            /\ threw' = FALSE
            /\ UNCHANGED << lists, originalItem, moves, budget, preLists, hovered >>
       ELSE IF ~ValidItem(lists, scan.list, scan.index)
       THEN \* line 88 reads lists.value[-1][-1]: TypeError, the listener ends here
            /\ dragging' = Some([attached |-> FALSE])
            /\ last' = "down:nomatch"
            /\ threw' = TRUE
            /\ UNCHANGED << lists, originalItem, listening, bodyGhosts, moves,
                            budget, preLists, hovered >>
       ELSE /\ budget > 0
            /\ originalItem' = Some(CaptureItem(lists, scan.list, scan.index))
            /\ lists' = CaptureLists(lists, scan.list, scan.index)
            /\ AppendGhost
            /\ last' = "down:captured"
            /\ threw' = FALSE
            /\ budget' = budget - 1
            /\ moves' = 0
            /\ preLists' = Some(lists)
            /\ hovered' = NoMove

\* The window mousedown listener, lines 61-108, delivered a target t.
MouseDown(t) ==
    /\ intruded' = (originalItem # Null)
    /\ UNCHANGED << startingLists, targetListIndex, targetIndex, addedPreview, lastCommit >>
    /\ CASE t.kind = "nonhtml" -> DownNotHTML
         [] t.kind = "nohandle" -> DownOutsideHandle
         [] t.kind = "handle" -> DownOnHandle(t.id)

\* The listener of line 61 is registered on window and never removed.
PointerDown ==
    /\ \E t \in DownTargets(startingLists) : MouseDown(t)
    /\ UNCHANGED unmounted

\* ---------------------------------------------------------------- mousemove
\* Lines 155-157: the previous preview is spliced out at its recorded place.
RemovePreview(ls, ap) ==
    IF ap = Null THEN ls
    ELSE SpliceIn(ls, Val(ap).list, Val(ap).target, 1, << >>)

\* Variant of lines 160-162 that splices the item in behind the target.
InsertPreviewAfter(ls, item, tli, ti) ==
    IF item = Null THEN ls
    ELSE SpliceIn(ls, tli, ti + 1, 0, << Val(item) >>)

\* Lines 160-162: the detached item is spliced in at the target indices.
InsertPreview(ls, item, tli, ti) ==
    IF item = Null THEN ls
    ELSE SpliceIn(ls, tli, ti, 0, << Val(item) >>)

\* The loop of lines 135-151 assigns the target indices: the target carries
\* an identifier and some list holds an item with it.
Resolves(ls, attr) ==
    attr # NoAttr /\ \E i \in DOMAIN ls : FindIndex(ls[i], attr) # -1

\* Variant of lines 129-132 that also forgets the target list.
MoveNoTargetForgetsList ==
    /\ targetIndex' = -1
    /\ targetListIndex' = -1
    /\ last' = "move:nohit"
    /\ threw' = FALSE
    /\ UNCHANGED << lists, addedPreview >>

\* Lines 129-132: the hit-test found no .draggify element.
MoveNoTarget ==
    /\ targetIndex' = -1
    /\ last' = "move:nohit"
    /\ threw' = FALSE
    /\ UNCHANGED << lists, targetListIndex, addedPreview >>

\* handleMouseMove, lines 111-166, with hit-test result t.
handleMouseMove(t) ==
    LET scan == ScanTarget(lists, t.id, 1, targetIndex, targetListIndex)
        removed == RemovePreview(lists, addedPreview)
    IN
    /\ moves < MaxMoves
    /\ moves' = moves + 1
    /\ hovered' = IF moves = 0 \/ hovered = t THEN t ELSE Mixed
    /\ UNCHANGED << startingLists, elem, dragging, originalIndex, originalListIndex,
                    originalItem, listening, bodyGhosts, budget, preLists,
                    intruded, lastCommit >>
    /\ IF dragging = Null
       THEN /\ last' = "move:noghost"
            /\ threw' = FALSE
            /\ UNCHANGED << lists, targetListIndex, targetIndex, addedPreview >>
       ELSE IF t.kind = "none"
       THEN MoveNoTarget
       ELSE /\ targetIndex' = scan.index
            /\ targetListIndex' = scan.list
            /\ IF originalItem # Null /\ ~ValidList(lists, scan.list)
               THEN \* lists.value[-1].splice: TypeError after the removal
                    /\ lists' = removed
                    /\ last' = "move:nolist"
                    /\ threw' = TRUE
                    /\ UNCHANGED addedPreview
               ELSE /\ lists' = InsertPreview(removed, originalItem, scan.list, scan.index)
                    /\ addedPreview' = Some([list |-> scan.list, target |-> scan.index])
                    /\ last' = IF Resolves(lists, t.id)
                               THEN "move:preview" ELSE "move:unresolved"
                    /\ threw' = FALSE

\* A mousemove on window reaches handleMouseMove only while it is registered.
PointerMove ==
    /\ \E t \in MoveTargets(startingLists) :
          IF listening
          THEN handleMouseMove(t)
          ELSE /\ last' = "move:undelivered"
               /\ threw' = FALSE
               /\ UNCHANGED << lists, startingLists, ctl, hist >>
    /\ UNCHANGED unmounted

\* ------------------------------------------------------------------ mouseup
\* Lines 177-187: what lists.value and startingLists are after the release.
ReleaseLists(ls, sl, ti) == IF ti = -1 THEN JSONClone(sl) ELSE ls
ReleaseStarting(ls, sl, ti) == IF ti = -1 THEN sl ELSE JSONClone(ls)

\* cleanUp, lines 195-202.
cleanUp ==
    /\ originalIndex' = -1
    /\ originalListIndex' = -1
    /\ addedPreview' = Null
    /\ targetListIndex' = -1
    /\ targetIndex' = -1
    /\ originalItem' = Null

\* handleMouseUp, lines 168-193.
handleMouseUp ==
    /\ UNCHANGED << elem, moves, budget, preLists, hovered >>
    /\ IF dragging = Null \/ elem = Null
       THEN /\ last' = "up:ignored"
            /\ threw' = FALSE
            /\ UNCHANGED << lists, startingLists, dragging, originalIndex,
                            originalListIndex, targetListIndex, targetIndex,
                            originalItem, addedPreview, listening, bodyGhosts,
                            intruded, lastCommit >>
       ELSE IF ~Val(dragging).attached
       THEN \* document.body.removeChild of a node that is no child: NotFoundError
            /\ last' = "up:nochild"
            /\ threw' = TRUE
            /\ UNCHANGED << lists, startingLists, dragging, originalIndex,
                            originalListIndex, targetListIndex, targetIndex,
                            originalItem, addedPreview, listening, bodyGhosts,
                            intruded, lastCommit >>
       ELSE /\ bodyGhosts' = bodyGhosts - 1
            /\ dragging' = Null
            /\ lists' = ReleaseLists(lists, startingLists, targetIndex)
            /\ startingLists' = ReleaseStarting(lists, startingLists, targetIndex)
            /\ last' = IF targetIndex = -1 THEN "up:rollback" ELSE "up:commit"
            /\ threw' = FALSE
            /\ lastCommit' = IF targetIndex = -1 THEN lastCommit ELSE Some(lists)
            /\ cleanUp
            /\ listening' = FALSE
            /\ UNCHANGED intruded

\* A mouseup on window reaches handleMouseUp only while it is registered.
PointerUp ==
    /\ IF listening
       THEN handleMouseUp
       ELSE /\ last' = "up:undelivered"
            /\ threw' = FALSE
            /\ UNCHANGED << lists, startingLists, ctl, hist >>
    /\ UNCHANGED unmounted

Next == PointerDown \/ PointerMove \/ PointerUp

Spec == Init /\ [][Next]_vars
SpecScenario == InitScenario /\ [][Next]_vars

\* ---------------------------------------------------------------- lifecycle
\* onUnmounted, lines 55-58: the move and up listeners are removed; the
\* mousedown listener of line 61 is not.
Unmount ==
    /\ ~unmounted
    /\ unmounted' = TRUE
    /\ listening' = FALSE
    /\ last' = "unmounted"
    /\ threw' = FALSE
    /\ UNCHANGED << lists, startingLists, elem, dragging, originalIndex,
                    originalListIndex, targetListIndex, targetIndex, originalItem,
                    addedPreview, bodyGhosts, hist >>

NextLifecycle == PointerDown \/ PointerMove \/ PointerUp \/ Unmount

SpecLifecycle == Init /\ [][NextLifecycle]_vars

\* ------------------------------------------------------------ other writers
\* The caller holds the returned ref (lines 204-206) and, while no session is
\* active, removes an item: lists.value[i].splice(j, 1).
ExternalWrite ==
    /\ originalItem = Null
    /\ \E i \in DOMAIN lists : \E j \in DOMAIN lists[i] :
          lists' = SpliceIn(lists, i - 1, j - 1, 1, << >>)
    /\ last' = "write"
    /\ threw' = FALSE
    /\ UNCHANGED << startingLists, ctl, unmounted, hist >>

NextShared == PointerDown \/ PointerMove \/ PointerUp \/ ExternalWrite

SpecShared == Init /\ [][NextShared]_vars

TypeOK ==
    /\ listening \in BOOLEAN
    /\ threw \in BOOLEAN
    /\ intruded \in BOOLEAN
    /\ bodyGhosts \in 0..MaxGhosts
    /\ moves \in 0..MaxMoves
    /\ budget \in 0..MaxGestures

\* ------------------------------------------------- vocabulary of the claims
\* A Drag Session is active: an item is detached.
Active == originalItem # Null

\* The latest handler was handleMouseUp ending a gesture made of one
\* pointer-down, pointer-moves and the pointer-up.
RolledBack == last = "up:rollback" /\ ~intruded
Committed == last = "up:commit" /\ ~intruded

\* The positions <<list, item>> (1-based) of the collection ls that hold id.
Positions(ls, id) ==
    { p \in UNION { { << i, j >> : j \in DOMAIN ls[i] } : i \in DOMAIN ls } :
        ls[p[1]][p[2]].id = id }

Ids(ls) == UNION { { ls[i][j].id : j \in DOMAIN ls[i] } : i \in DOMAIN ls }

\* The arrangement of identifiers of a collection.
IdsOf(ls) == [i \in DOMAIN ls |-> [j \in DOMAIN ls[i] |-> ls[i][j].id]]

\* ------------------------------------------------------------------- claims

\* C1: a gesture (pointer-down on an item, pointer-moves, pointer-up) released
\* with targetIndex = -1 leaves the List Collection deep-equal to the
\* arrangement S it started from.
C1_FailedDragRestores == RolledBack => lists = Val(preLists)

\* C1, as far as it holds: the restored collection is the JSON round trip of
\* S (same identifiers at the same places).
C1_FailedDragRestoresIds == RolledBack => IdsOf(lists) = IdsOf(Val(preLists))

\* C2: during an active session the items of the List Collection, together
\* with the detached item while no preview is inserted, are exactly the
\* pre-session items: every identifier occurs as often as before the session.
C2_SingleOccupancy ==
    Active =>
        \A id \in Ids(Val(preLists)) \cup Ids(lists) :
            Cardinality(Positions(lists, id))
              + (IF addedPreview = Null /\ Val(originalItem).id = id THEN 1 ELSE 0)
            = Cardinality(Positions(Val(preLists), id))

\* C3: during tracking the dragged item's identifier occurs at zero or one
\* positions of the List Collection.
C3_AtMostOnePreview ==
    Active => Cardinality(Positions(lists, Val(originalItem).id)) <= 1

\* C4: a gesture released with an invalid target after a commit restores the
\* List Collection to the arrangement S1 the commit produced.
C4_CommitFinality ==
    (RolledBack /\ lastCommit # Null) => lists = Val(lastCommit)

C4_CommitFinalityIds ==
    (RolledBack /\ lastCommit # Null) => IdsOf(lists) = IdsOf(Val(lastCommit))

\* The collection ls without the items whose identifier is id.
RECURSIVE DropId(_, _)
DropId(list, id) ==
    IF list = << >> THEN << >>
    ELSE IF Head(list).id = id THEN DropId(Tail(list), id)
    ELSE << Head(list) >> \o DropId(Tail(list), id)

Without(ls, id) == [i \in DOMAIN ls |-> DropId(ls[i], id)]

\* The item with identifier d sits immediately before the item with
\* identifier h, in the same list of ls.
ImmediatelyBefore(ls, d, h) ==
    \E i \in DOMAIN ls : \E j \in 1..(Len(ls[i]) - 1) :
        ls[i][j].id = d /\ ls[i][j + 1].id = h

Handle(a) == [kind |-> "handle", id |-> a]

\* The gesture just released started on the item with identifier d and all
\* its pointer-moves, at least one, hovered the item with identifier h.
DraggedOnto(d, h) ==
    /\ Committed
    /\ elem = Some(IdToString(d))
    /\ moves >= 1
    /\ hovered = Handle(IdToString(h))

ListOf(ls, id) == CHOOSE i \in DOMAIN ls : \E j \in DOMAIN ls[i] : ls[i][j].id = id

\* C5: from [[A,B,C],[D,E]], dragging A onto D and releasing while hovering D,
\* however many pointer-moves are delivered, yields [[B,C],[A,D,E]]; in
\* general an item released on an item H of another list ends immediately
\* before H, every other item keeping its list and relative order.
C5_CrossListMove ==
    /\ (DraggedOnto(1, 4) /\ Val(preLists) = MakeItems(<< <<1, 2, 3>>, <<4, 5>> >>, {}))
          => lists = MakeItems(<< <<2, 3>>, <<1, 4, 5>> >>, {})
    /\ \A d \in Ids(startingLists), h \in Ids(startingLists) :
          (/\ DraggedOnto(d, h)
           /\ Positions(Val(preLists), d) # {} /\ Positions(Val(preLists), h) # {}
           /\ ListOf(Val(preLists), d) # ListOf(Val(preLists), h))
          => /\ ImmediatelyBefore(lists, d, h)
             /\ Without(lists, d) = Without(Val(preLists), d)

\* C5 for a single pointer-move: the part of the claim the code meets.
C5_CrossListMoveOneMove ==
    \A d \in Ids(startingLists), h \in Ids(startingLists) :
          (/\ DraggedOnto(d, h) /\ moves = 1
           /\ Positions(Val(preLists), d) # {} /\ Positions(Val(preLists), h) # {}
           /\ ListOf(Val(preLists), d) # ListOf(Val(preLists), h))
          => /\ ImmediatelyBefore(lists, d, h)
             /\ Without(lists, d) = Without(Val(preLists), d)

\* C6 as stated: from [[A,B,C]], pointer-down on A, one pointer-move hovering
\* C, pointer-up yields [[B,C,A]].
C6_SameListReorder_Stated ==
    (DraggedOnto(1, 3) /\ moves = 1 /\ Val(preLists) = MakeItems(<< <<1, 2, 3>> >>, {}))
        => lists = MakeItems(<< <<2, 3, 1>> >>, {})

\* C6 as amended: from [[A,B,C]], pointer-down on A, one pointer-move hovering
\* C, pointer-up yields [[B,A,C]]: A takes the slot C has in [B,C] and C moves
\* down by one.
C6_SameListReorder ==
    (DraggedOnto(1, 3) /\ moves = 1 /\ Val(preLists) = MakeItems(<< <<1, 2, 3>> >>, {}))
        => lists = MakeItems(<< <<2, 1, 3>> >>, {})

C6_Witness ==
    /\ DraggedOnto(1, 3) /\ moves = 1
    /\ Val(preLists) = MakeItems(<< <<1, 2, 3>> >>, {})
    /\ lists = MakeItems(<< <<2, 1, 3>> >>, {})

DownLabels == { "down:nonhtml", "down:nohandle", "down:again", "down:nomatch", "down:captured" }
MoveLabels == { "move:noghost", "move:nohit", "move:nolist", "move:preview",
                "move:unresolved", "move:undelivered" }
UpLabels == { "up:ignored", "up:nochild", "up:rollback", "up:commit", "up:undelivered" }

\* C7: a pointer-down in the idle state on an element with no enclosing drag
\* handle creates no session (no detached item, no ghost, no move/up
\* listeners) and leaves the List Collection unchanged; with no session,
\* pointer-move and pointer-up events leave the List Collection and the
\* controller state unchanged.
C7_NoOpOutsideDragZone ==
    [][ /\ (last' \in { "down:nohandle", "down:nonhtml" } /\ ~intruded')
            => /\ lists' = lists
               /\ startingLists' = startingLists
               /\ originalItem' = Null
               /\ dragging' = dragging
               /\ bodyGhosts' = bodyGhosts
               /\ ~listening'
        /\ (~Active /\ last' \in MoveLabels \cup UpLabels)
            => UNCHANGED << lists, startingLists, ctl >> ]_vars

\* A pointer-move follows a pointer-down outside every drag handle, idle.
C7_Witness ==
    /\ last = "move:undelivered"
    /\ ~Active /\ ~intruded /\ elem = Null /\ ~listening
    /\ preLists # Null

\* C8: a pointer-down on a drag handle whose identifier matches no item raises
\* no exception, starts no session and leaves the List Collection unchanged.
C8_FailedCaptureSilent ==
    [][ last' = "down:nomatch"
            => /\ ~threw'
               /\ originalItem' = Null
               /\ ~listening'
               /\ bodyGhosts' = bodyGhosts
               /\ lists' = lists ]_vars

\* C8 without the exception: what the failed capture leaves behind.
C8_FailedCaptureNoSession ==
    [][ last' = "down:nomatch"
            => /\ originalItem' = Null
               /\ ~listening'
               /\ bodyGhosts' = bodyGhosts
               /\ lists' = lists ]_vars

\* C9: every pointer-up delivered while a session is active ends it: the ghost
\* is gone, the indices are -1, preview record and detached item are empty,
\* the move/up listeners are detached.
C9_PointerUpEndsSession ==
    [][ (Active /\ listening /\ last' \in UpLabels /\ vars' # vars)
            => /\ dragging' = Null
               /\ originalIndex' = -1 /\ originalListIndex' = -1
               /\ targetIndex' = -1 /\ targetListIndex' = -1
               /\ addedPreview' = Null
               /\ originalItem' = Null
               /\ ~listening' ]_vars

\* C9 for gestures without a pointer-down in mid-session.
C9_PointerUpEndsPlainSession ==
    [][ (Active /\ listening /\ ~intruded /\ last' \in UpLabels /\ vars' # vars)
            => /\ dragging' = Null /\ bodyGhosts' = bodyGhosts - 1
               /\ originalIndex' = -1 /\ originalListIndex' = -1
               /\ targetIndex' = -1 /\ targetListIndex' = -1
               /\ addedPreview' = Null
               /\ originalItem' = Null
               /\ ~listening' ]_vars

\* C10: a pointer-down delivered while a session is active is ignored: source
\* element, ghost, source indices, detached item, preview record and the List
\* Collection stay as they are.
C10_PointerDownIgnoredInSession ==
    [][ (Active /\ last' \in DownLabels)
            => UNCHANGED << elem, dragging, bodyGhosts, originalIndex,
                            originalListIndex, originalItem, addedPreview, lists >> ]_vars

\* With the controller the only writer the listeners are registered exactly
\* while an item is detached.
ListeningIffActive == listening <=> Active

\* C11: a pointer-move of a session whose hit-test yields a drop-eligible
\* element with no identifier, or with an identifier found in no list, marks
\* the target invalid (targetIndex = -1), leaves the List Collection and the
\* preview record unchanged and raises no exception.
C11_UnresolvedHoverInvalid ==
    [][ (Active /\ last' \in { "move:unresolved", "move:nolist" })
            => /\ targetIndex' = -1
               /\ lists' = lists
               /\ addedPreview' = addedPreview
               /\ ~threw' ]_vars

\* C11, the exception alone: an unresolved hover raises none.
C11_UnresolvedHoverNoThrow ==
    [][ (Active /\ last' \in { "move:unresolved", "move:nolist" }) => ~threw' ]_vars

\* C11, the frame alone: an unresolved hover that raises no exception leaves
\* the List Collection and the preview record unchanged.
C11_UnresolvedHoverNoUpdate ==
    [][ (Active /\ last' = "move:unresolved")
            => lists' = lists /\ addedPreview' = addedPreview ]_vars

\* The identifier of the item the pointer-move being taken resolved: the
\* indices it assigns point at the hovered item in the collection it scanned.
ResolvedId == lists[targetListIndex' + 1][targetIndex' + 1].id

\* C12: after every pointer-move that resolves a hovered item H other than
\* the dragged item, the dragged item sits immediately before H in H's list,
\* wherever the previous preview was.
C12_PreviewBeforeHovered ==
    [][ (Active /\ last' = "move:preview" /\ ResolvedId # Val(originalItem).id)
            => ImmediatelyBefore(lists', Val(originalItem).id, ResolvedId) ]_vars

\* C12 where the code meets it: no previous preview sits in H's list at a
\* lower index than H.
C12_PreviewBeforeHoveredFresh ==
    [][ (/\ Active /\ last' = "move:preview"
         /\ ResolvedId # Val(originalItem).id
         /\ \/ addedPreview = Null
            \/ Val(addedPreview).list # targetListIndex'
            \/ Val(addedPreview).target > targetIndex')
            => ImmediatelyBefore(lists', Val(originalItem).id, ResolvedId) ]_vars

\* C13: in an active session a preview record {list, target} points at a
\* valid position of the List Collection that holds the dragged item, and
\* without a preview record the dragged item is in no list.
C13_PreviewRecordValid ==
    Active =>
        IF addedPreview # Null
        THEN /\ ValidItem(lists, Val(addedPreview).list, Val(addedPreview).target)
             /\ lists[Val(addedPreview).list + 1][Val(addedPreview).target + 1].id
                    = Val(originalItem).id
        ELSE Positions(lists, Val(originalItem).id) = {}

\* C14: a pointer-move whose hit-test yields no element sets targetIndex to
\* -1 and changes nothing else: the List Collection, the preview record,
\* targetListIndex, the snapshot and the rest of the controller state keep
\* their values.
C14_NoHitKeepsPreview ==
    [][ last' = "move:nohit"
            => /\ targetIndex' = -1
               /\ ~threw'
               /\ UNCHANGED << lists, addedPreview, targetListIndex, startingLists,
                               elem, dragging, originalIndex, originalListIndex,
                               originalItem, listening, bodyGhosts >> ]_vars

\* A no-hit frame has followed a valid hover: the preview of that hover is
\* still recorded and still in the list.
C14_Witness ==
    /\ last = "move:nohit"
    /\ Active /\ ~intruded
    /\ targetIndex = -1
    /\ addedPreview # Null /\ targetListIndex = Val(addedPreview).list
    /\ Cardinality(Positions(lists, Val(originalItem).id)) = 1

\* The pointer-up being taken ends a gesture made of one pointer-down,
\* pointer-moves and this pointer-up.
Releases == Active /\ ~intruded /\ last' \in { "up:rollback", "up:commit" }

\* C15: the release decides by the target at that moment alone. With
\* targetIndex = -1, which is the case when no pointer-move occurred or the
\* last one had no valid target, the List Collection becomes the pre-gesture
\* arrangement; otherwise it stays exactly as the last preview made it and
\* holds the dragged item exactly once.
C15_ReleaseDecision ==
    [][ Releases
            => /\ (last' = "up:rollback") <=> (targetIndex = -1)
               /\ last \in { "down:captured", "move:nohit", "move:unresolved", "move:nolist" }
                     => last' = "up:rollback"
               /\ last' = "up:rollback" => lists' = Val(preLists)
               /\ last' = "up:commit"
                     => /\ lists' = lists
                        /\ Cardinality(Positions(lists', Val(originalItem).id)) = 1 ]_vars

\* C16: a gesture that ends with an invalid target restores the List
\* Collection as it was at that gesture's pointer-down, also when the caller
\* has changed the collection since the baseline snapshot was taken.
C16_RollbackToPointerDown ==
    (RolledBack /\ IdsOf(Val(preLists)) # IdsOf(startingLists))
        => IdsOf(lists) = IdsOf(Val(preLists))

\* C17: after teardown, also teardown during an active session, no
\* pointer-down, pointer-move or pointer-up changes the List Collection or
\* leaves the move/up listeners attached.
C17_DetachedAfterTeardown ==
    [][ unmounted => (lists' = lists /\ ~listening') ]_vars

\* C17 for the handlers teardown does remove: after teardown no pointer-move
\* or pointer-up is delivered until a pointer-down has re-attached them.
C17_MoveUpDetachedByTeardown ==
    [][ (last = "unmounted" /\ last' \in MoveLabels \cup UpLabels)
            => (last' \in { "move:undelivered", "up:undelivered" }
                /\ UNCHANGED << lists, startingLists, ctl >>) ]_vars

\* C18: two consecutive pointer-moves of a session that resolve the same
\* hovered item H leave the List Collection and the preview record as the
\* first of them did.
C18_MoveIdempotent ==
    [][ (/\ Active
         /\ last = "move:preview" /\ last' = "move:preview"
         /\ hovered.kind = "handle" /\ hovered' = hovered)
            => lists' = lists /\ addedPreview' = addedPreview ]_vars

\* The identifier of the item the gesture in progress or just released
\* started on.
DraggedId == IF Active THEN Val(originalItem).id
             ELSE CHOOSE d \in Ids(Val(preLists)) : elem = Some(IdToString(d))

\* C19: throughout a gesture and after its commit or rollback every item
\* other than the dragged one is in the list it was in before the gesture,
\* in the same relative order.
C19_OthersKeepPlace ==
    ((Active /\ ~intruded) \/ RolledBack \/ Committed)
        => IdsOf(Without(lists, DraggedId)) = IdsOf(Without(Val(preLists), DraggedId))

\* The controller is idle: no ghost and no detached item.
Idle == dragging = Null /\ originalItem = Null

\* C20: with the controller the only writer, in every idle state the baseline
\* snapshot startingLists is deep-equal to the List Collection, the four
\* indices are -1 and there is no preview record.
C20_IdleBaseline ==
    Idle => /\ startingLists = lists
            /\ originalIndex = -1 /\ originalListIndex = -1
            /\ targetIndex = -1 /\ targetListIndex = -1
            /\ addedPreview = Null

\* C20 where the code meets it: in every idle state the snapshot is the JSON
\* round trip of the List Collection, the indices are -1 and there is no
\* preview record.
C20_IdleBaselineJSON ==
    Idle => /\ startingLists = JSONClone(lists)
            /\ originalIndex = -1 /\ originalListIndex = -1
            /\ targetIndex = -1 /\ targetListIndex = -1
            /\ addedPreview = Null

=============================================================================
